---------------------------- MODULE Spec2Model ----------------------------
(***************************************************************************)
(* Model of the parametric sweep driver of the honeycomb lattice project  *)
(* (parametric_sweep.py: createModel, extractResults, runSweep), of the   *)
(* post-processing functions (post_process_results.py) and of the ranking *)
(* of configurations (generate_report.py: findOptimalConfiguration).      *)
(*                                                                         *)
(* The Abaqus session (mdb.models, mdb.jobs, the solver, the output       *)
(* database) is the environment: every call into it that can fail or      *)
(* return data is a nondeterministic choice.                              *)
(***************************************************************************)
EXTENDS Integers, Sequences, FiniteSets, TLC

(***************************************************************************)
(* Sweep parameters.  beta is kept as its denominator d (beta = 1/d), so  *)
(* BETA_VALUES = [1/15, 1/10, 1/8, 1/5].                                  *)
(***************************************************************************)
BETA_VALUES == <<15, 10, 8, 5>>

THETA_VALUES == <<0, 15, 30>>

\* Number of configurations of the enumeration the model sweeps.
MaxConfigs == 2

maxWait == 300

pollInterval == 2

\* The for-loops of runSweep: beta outer, theta inner.
Configs ==
    [i \in 1..(Len(BETA_VALUES) * Len(THETA_VALUES)) |->
        [beta  |-> BETA_VALUES[((i - 1) \div Len(THETA_VALUES)) + 1],
         theta |-> THETA_VALUES[((i - 1) % Len(THETA_VALUES)) + 1]]]

totalConfigs ==
    IF MaxConfigs < Len(Configs) THEN MaxConfigs ELSE Len(Configs)

(***************************************************************************)
(* String formatting.  A string is a sequence of one-character strings.   *)
(***************************************************************************)
Digit(n) == CASE n = 0 -> "0" [] n = 1 -> "1" [] n = 2 -> "2" [] n = 3 -> "3"
              [] n = 4 -> "4" [] n = 5 -> "5" [] n = 6 -> "6" [] n = 7 -> "7"
              [] n = 8 -> "8" [] n = 9 -> "9"

RECURSIVE Decimal(_)
\* the decimal digits of a natural number
Decimal(n) == IF n < 10 THEN <<Digit(n)>>
              ELSE Decimal(n \div 10) \o <<Digit(n % 10)>>

\* beta = 1/d in ten-thousandths, rounded to nearest (the "%.4f" rounding)
Round4(d) == (2 * 10000 + d) \div (2 * d)

\* f"{beta:.4f}".replace('.', '_')
betaStr(d) ==
    LET q == Round4(d)
        f == q % 10000
    IN  Decimal(q \div 10000) \o <<"_">> \o
        <<Digit(f \div 1000), Digit((f \div 100) % 10),
          Digit((f \div 10) % 10), Digit(f % 10)>>

\* f"{theta:.0f}"
thetaStr(t) == Decimal(t)

Suffix(d, t) == <<"b">> \o betaStr(d) \o <<"_", "t">> \o thetaStr(t)

ModelNameOf(d, t) == <<"HoneycombRod_">> \o Suffix(d, t)

JobNameOf(d, t) == <<"Job_">> \o Suffix(d, t)

configKey(d, t) == Suffix(d, t)

(***************************************************************************)
(* Job statuses reported by the solver.                                   *)
(***************************************************************************)
NonTerminal == {"SUBMITTED", "RUNNING"}

Terminal == {"COMPLETED", "ABORTED", "FAILED"}

Statuses == NonTerminal \cup Terminal

\* A job that has ended keeps its status; a job still in progress may be
\* read in any status next.
NextStatuses(s) == IF s \in Terminal THEN {s} ELSE Statuses

None == "None"

Unbound == <<>>

(***************************************************************************)
(* Output databases the solver may leave behind for a completed job.      *)
(*   open   : openOdb succeeds                                             *)
(*   static : "absent" (no Step-Static), "noU" (last frame has no U), or  *)
(*            "ok" (U present, its largest magnitude is MaxDispValue)     *)
(*   freq   : "absent" (no Step-Frequency), "bad" (reading a frame        *)
(*            raises), or "ok" (the frame values are FrameValues)         *)
(***************************************************************************)
MaxDispValue == "u_max"

FrameValues == <<"f1", "f2">>

Odbs ==
    { [open |-> FALSE, static |-> "absent", freq |-> "absent"],
      [open |-> TRUE,  static |-> "noU",    freq |-> "absent"],
      [open |-> TRUE,  static |-> "ok",     freq |-> "ok"],
      [open |-> TRUE,  static |-> "ok",     freq |-> "bad"] }

\* a failure while the database is read leaves only the error text
extractResults_ErrorOnly(odb, odbPath, beta, theta) ==
    IF ~odb.open THEN [beta |-> beta, theta |-> theta, error |-> "openOdb failed"]
    ELSE IF odb.freq = "bad"
    THEN [beta |-> beta, theta |-> theta, error |-> "frame read failed"]
    ELSE [beta |-> beta, theta |-> theta, odbPath |-> odbPath,
          maxStress |-> None,
          maxDisplacement |-> IF odb.static = "ok" THEN MaxDispValue ELSE None,
          bucklingLoadFactors |-> <<>>,
          naturalFrequencies |-> IF odb.freq = "ok" THEN FrameValues ELSE <<>>,
          strainEnergyFRF |-> <<>>, frequencies |-> <<>>]

\* extractResults: the record it returns for one output database.  Whatever
\* is raised while the database is read is caught and kept as 'error'.
extractResults(odb, odbPath, beta, theta) ==
    LET results == [beta |-> beta, theta |-> theta, odbPath |-> odbPath,
                    maxStress |-> None, maxDisplacement |-> None,
                    bucklingLoadFactors |-> <<>>, naturalFrequencies |-> <<>>,
                    strainEnergyFRF |-> <<>>, frequencies |-> <<>>]
        withErr(r, e) ==
            [k \in DOMAIN r \cup {"error"} |-> IF k = "error" THEN e ELSE r[k]]
        r1 == IF odb.static = "ok"
              THEN [results EXCEPT !.maxDisplacement = MaxDispValue]
              ELSE results
    IN  IF ~odb.open THEN withErr(results, "openOdb failed")
        ELSE IF odb.freq = "bad" THEN withErr(r1, "frame read failed")
        ELSE IF odb.freq = "ok" THEN [r1 EXCEPT !.naturalFrequencies = FrameValues]
        ELSE r1

(***************************************************************************)
(* State of runSweep.                                                     *)
(***************************************************************************)
VARIABLES
    pc,            \* position of runSweep
    configNum,     \* configurations started so far; the current one is Configs[configNum]
    modelName,     \* local of runSweep, Unbound until createModel first returns
    jobName,       \* local of runSweep
    waitTime,      \* local of the poll loop
    jobStatus,     \* local: the status read last
    mdbModels,     \* mdb.models: names of the models in memory
    mdbJobs,       \* mdb.jobs: job name -> status ("NONE" before submit)
    allResults,    \* the results map: configKey -> record
    resultsFile,   \* parametric_results.json: whether it was written, and its content
    finalRead,     \* history: per configuration, the status read after the poll loop
    cleanups,      \* history: number of cleanup blocks that have run to their end
    cur            \* history of the current configuration's lifecycle

sweepVars == <<pc, configNum, modelName, jobName, waitTime, jobStatus, mdbModels,
               mdbJobs, allResults, resultsFile, finalRead, cleanups, cur>>

(***************************************************************************)
(* State of the two other developments of this module, which the sweep    *)
(* leaves alone: the bare enumeration loops of runSweep (enum), and one   *)
(* call of a post-processing or ranking function with the value it        *)
(* returns (call, ret).                                                    *)
(***************************************************************************)
VARIABLES
    enum,          \* the for-loops of runSweep: iterators, counter, pairs started
    call,          \* a call of a post-processing or report function: its arguments
    ret            \* what the call returned or raised

otherVars == <<enum, call, ret>>

vars == <<sweepVars, otherVars>>

\* the value of enum, call and ret while they are not in use
Idle == [pc |-> "idle"]

beta == Configs[configNum].beta

theta == Configs[configNum].theta

\* Nothing has happened yet for the current configuration: the numbers of
\* createModel calls, submits, sleeps, status polls inside the loop, status
\* reads after the loop and result extractions, the status the job was
\* classified by, whether the except handler ran, and the number of
\* exceptions the finally block swallowed.
NoSteps == [builds |-> 0, submits |-> 0, sleeps |-> 0, polls |-> 0,
            classifications |-> 0, classified |-> None, extractions |-> 0,
            handled |-> FALSE, swallowed |-> 0]

NotWritten == [written |-> FALSE, content |-> <<>>]

SweepInit ==
    /\ pc = "for"
    /\ configNum = 0
    /\ modelName = Unbound
    /\ jobName = Unbound
    /\ waitTime = 0
    /\ jobStatus = None
    /\ mdbModels = {}
    /\ mdbJobs = <<>>
    /\ allResults = <<>>
    /\ resultsFile = NotWritten
    /\ finalRead = [i \in 1..totalConfigs |-> None]
    /\ cleanups = 0
    /\ cur = NoSteps

Init ==
    /\ SweepInit
    /\ enum = Idle
    /\ call = Idle
    /\ ret = Idle

\* d[k] = v, for a dict d kept as a function
Put(d, k, v) == [x \in DOMAIN d \cup {k} |-> IF x = k THEN v ELSE d[x]]

(***************************************************************************)
(* except Exception as e (lines 402-411): the error record is stored      *)
(* under the configuration's key and control goes to the finally block.   *)
(* c is the lifecycle history up to the statement that raised.            *)
(***************************************************************************)
\* the handler lets the exception escape runSweep
ExceptHandler_Reraise(c, e) ==
    /\ pc' = "raised"
    /\ cur' = c
    /\ UNCHANGED allResults

\* the handler logs the error but stores no record
ExceptHandler_NoRecord(c, e) ==
    /\ pc' = "closeOdb"
    /\ cur' = [c EXCEPT !.handled = TRUE]
    /\ UNCHANGED allResults

ExceptHandler(c, e) ==
    /\ allResults' = Put(allResults, configKey(beta, theta),
                         [beta |-> beta, theta |-> theta, error |-> e])
    /\ cur' = [c EXCEPT !.handled = TRUE]
    /\ pc' = "closeOdb"

(***************************************************************************)
(* for beta in BETA_VALUES: for theta in THETA_VALUES: (lines 322-332)    *)
(* waitTime and jobStatus are dead here (both are assigned before they    *)
(* are read again), so they are set back to their initial values.         *)
(***************************************************************************)
StartConfig ==
    /\ pc = "for"
    /\ configNum < totalConfigs
    /\ configNum' = configNum + 1
    /\ waitTime' = 0
    /\ jobStatus' = None
    /\ cur' = NoSteps
    /\ pc' = "createModel"
    /\ UNCHANGED <<modelName, jobName, mdbModels, mdbJobs, allResults,
                   resultsFile, finalRead, cleanups>>
    /\ UNCHANGED otherVars

(***************************************************************************)
(* createModel (lines 61-249) called at line 336.  The model is entered   *)
(* into mdb.models at line 77 (after an old one of that name is deleted), *)
(* the job into mdb.jobs by the last statement (line 245).  Outcomes:     *)
(*   "ok"         returns; model and job exist                            *)
(*   "noJob"      returns, but mdb.Job left no job in mdb.jobs            *)
(*   "raiseEarly" raises before the model exists                          *)
(*   "raiseLate"  raises after mdb.Model, before mdb.Job                  *)
(***************************************************************************)
CreateOutcomes == {"ok", "noJob", "raiseEarly", "raiseLate"}

createModel(outcome) ==
    LET mn == ModelNameOf(beta, theta)
        jn == JobNameOf(beta, theta)
    IN  /\ mdbModels' = IF outcome = "raiseEarly" THEN mdbModels \ {mn}
                        ELSE mdbModels \cup {mn}
        /\ mdbJobs' = IF outcome = "ok" THEN Put(mdbJobs, jn, "NONE") ELSE mdbJobs
        /\ IF outcome \in {"ok", "noJob"}
           THEN /\ modelName' = mn
                /\ jobName' = jn
                /\ cur' = [cur EXCEPT !.builds = @ + 1]
                /\ pc' = "saveAs"
                /\ UNCHANGED allResults
           ELSE /\ ExceptHandler([cur EXCEPT !.builds = @ + 1], "createModel failed")
                /\ UNCHANGED <<modelName, jobName>>

CreateModel ==
    /\ pc = "createModel"
    /\ \E outcome \in CreateOutcomes : createModel(outcome)
    /\ UNCHANGED <<configNum, waitTime, jobStatus, resultsFile, finalRead, cleanups>>
    /\ UNCHANGED otherVars

\* mdb.saveAs(pathName=savePath) (lines 342-346)
SaveAs ==
    /\ pc = "saveAs"
    /\ \E ok \in BOOLEAN :
          IF ok THEN pc' = "checkJob" /\ UNCHANGED <<allResults, cur>>
          ELSE ExceptHandler(cur, "saveAs failed")
    /\ UNCHANGED <<configNum, modelName, jobName, waitTime, jobStatus, mdbModels,
                   mdbJobs, resultsFile, finalRead, cleanups>>
    /\ UNCHANGED otherVars

\* if jobName not in mdb.jobs: raise Exception("Job ... not found") (lines 355-358)
CheckJob ==
    /\ pc = "checkJob"
    /\ IF jobName \in DOMAIN mdbJobs
       THEN pc' = "submit" /\ UNCHANGED <<allResults, cur>>
       ELSE ExceptHandler(cur, "Job not found")
    /\ UNCHANGED <<configNum, modelName, jobName, waitTime, jobStatus, mdbModels,
                   mdbJobs, resultsFile, finalRead, cleanups>>
    /\ UNCHANGED otherVars

\* the job is polled without having been submitted
SubmitStep_Skipped(ok) ==
    /\ waitTime' = 0
    /\ pc' = "while"
    /\ UNCHANGED <<mdbJobs, allResults, cur>>

\* mdb.jobs[jobName].submit(); maxWait = 300; waitTime = 0 (lines 361-366)
SubmitStep(ok) ==
    IF ok
    THEN /\ mdbJobs' = [mdbJobs EXCEPT ![jobName] = "SUBMITTED"]
         /\ waitTime' = 0
         /\ cur' = [cur EXCEPT !.submits = @ + 1]
         /\ pc' = "while"
         /\ UNCHANGED allResults
    ELSE /\ ExceptHandler(cur, "submit failed")
         /\ UNCHANGED <<mdbJobs, waitTime>>

Submit ==
    /\ pc = "submit"
    /\ \E ok \in BOOLEAN : SubmitStep(ok)
    /\ UNCHANGED <<configNum, modelName, jobName, jobStatus, mdbModels,
                   resultsFile, finalRead, cleanups>>
    /\ UNCHANGED otherVars

\* while waitTime < maxWait: time.sleep(2) (lines 367-368)
WhileTest ==
    /\ pc = "while"
    /\ IF waitTime < maxWait
       THEN /\ cur' = [cur EXCEPT !.sleeps = @ + 1]
            /\ pc' = "poll"
       ELSE /\ pc' = "final"
            /\ UNCHANGED cur
    /\ UNCHANGED <<configNum, modelName, jobName, waitTime, jobStatus, mdbModels,
                   mdbJobs, allResults, resultsFile, finalRead, cleanups>>
    /\ UNCHANGED otherVars

\* the loop ends early on COMPLETED only
IsTerminal_CompletedOnly(s) == s = "COMPLETED"

\* the test that ends the poll loop early (line 372)
IsTerminal(s) == s = "COMPLETED" \/ s = "ABORTED" \/ s = "FAILED"

\* the loop forgets to advance waitTime
PollStep_NoIncrement(s) ==
    /\ mdbJobs' = [mdbJobs EXCEPT ![jobName] = s]
    /\ jobStatus' = s
    /\ cur' = [cur EXCEPT !.polls = @ + 1]
    /\ UNCHANGED waitTime
    /\ pc' = IF s = "COMPLETED" \/ s = "ABORTED" \/ s = "FAILED" THEN "final" ELSE "while"

\* jobStatus = mdb.jobs[jobName].status; break if terminal; waitTime += 2
\* (lines 369-374)
PollStep(s) ==
    /\ mdbJobs' = [mdbJobs EXCEPT ![jobName] = s]
    /\ jobStatus' = s
    /\ cur' = [cur EXCEPT !.polls = @ + 1]
    /\ IF IsTerminal(s)
       THEN pc' = "final" /\ UNCHANGED waitTime
       ELSE pc' = "while" /\ waitTime' = waitTime + pollInterval

Poll ==
    /\ pc = "poll"
    /\ \E s \in NextStatuses(mdbJobs[jobName]) : PollStep(s)
    /\ UNCHANGED <<configNum, modelName, jobName, mdbModels, allResults,
                   resultsFile, finalRead, cleanups>>
    /\ UNCHANGED otherVars

\* the job is classified by the last status seen inside the poll loop
Classify_LastPolled(s) ==
    /\ mdbJobs' = [mdbJobs EXCEPT ![jobName] = s]
    /\ jobStatus' = s
    /\ finalRead' = [finalRead EXCEPT ![configNum] = s]
    /\ cur' = [cur EXCEPT !.classified = s, !.classifications = @ + 1]
    /\ pc' = IF jobStatus = "COMPLETED" THEN "extract" ELSE "closeOdb"

\* results are extracted whatever the status read
Classify_AlwaysExtract(s) ==
    /\ mdbJobs' = [mdbJobs EXCEPT ![jobName] = s]
    /\ jobStatus' = s
    /\ finalRead' = [finalRead EXCEPT ![configNum] = s]
    /\ cur' = [cur EXCEPT !.classified = s, !.classifications = @ + 1]
    /\ pc' = "extract"

\* jobStatus = mdb.jobs[jobName].status; if jobStatus == COMPLETED: ... else:
\* print("Job did not complete successfully") (lines 377-382, 399-400)
Classify(s) ==
    /\ mdbJobs' = [mdbJobs EXCEPT ![jobName] = s]
    /\ jobStatus' = s
    /\ finalRead' = [finalRead EXCEPT ![configNum] = s]
    /\ cur' = [cur EXCEPT !.classified = s, !.classifications = @ + 1]
    /\ pc' = IF s = "COMPLETED" THEN "extract" ELSE "closeOdb"

FinalStatus ==
    /\ pc = "final"
    /\ \E s \in NextStatuses(mdbJobs[jobName]) : Classify(s)
    /\ UNCHANGED <<configNum, modelName, jobName, waitTime, mdbModels,
                   allResults, resultsFile, cleanups>>
    /\ UNCHANGED otherVars

\* results = extractResults(odbPath, beta, theta); allResults[configKey] = results
\* (lines 384-398).  The imports at the head of extractResults (lines 256-257)
\* are outside its try block: if they fail, runSweep's handler runs.
StoreResults(odb) ==
    /\ allResults' = Put(allResults, configKey(beta, theta),
                         extractResults(odb, jobName \o <<".odb">>, beta, theta))
    /\ cur' = [cur EXCEPT !.extractions = @ + 1]
    /\ pc' = "closeOdb"

Extract ==
    /\ pc = "extract"
    /\ \/ \E odb \in Odbs : StoreResults(odb)
       \/ ExceptHandler([cur EXCEPT !.extractions = @ + 1], "import failed")
    /\ UNCHANGED <<configNum, modelName, jobName, waitTime, jobStatus, mdbModels,
                   mdbJobs, resultsFile, finalRead, cleanups>>
    /\ UNCHANGED otherVars

\* finally: try: visualization.closeOdb() except: pass (lines 412-418)
CloseOdb ==
    /\ pc = "closeOdb"
    /\ \E raises \in BOOLEAN :
          cur' = [cur EXCEPT !.swallowed = IF raises THEN @ + 1 ELSE @]
    /\ pc' = "delModel"
    /\ UNCHANGED <<configNum, modelName, jobName, waitTime, jobStatus, mdbModels,
                   mdbJobs, allResults, resultsFile, finalRead, cleanups>>
    /\ UNCHANGED otherVars

\* the del is not guarded: its exception escapes runSweep
DeleteModel_Propagate ==
    /\ IF modelName # Unbound /\ modelName \in mdbModels
       THEN /\ mdbModels' = mdbModels \ {modelName}
            /\ cleanups' = cleanups + 1
            /\ pc' = "for"
       ELSE /\ pc' = "raised"
            /\ UNCHANGED <<mdbModels, cleanups>>
    /\ UNCHANGED cur

\* try: del mdb.models[modelName] except: pass (lines 420-423).  The del raises
\* when modelName is unbound or names no model of mdb.models.
DeleteModel ==
    /\ IF modelName # Unbound /\ modelName \in mdbModels
       THEN /\ mdbModels' = mdbModels \ {modelName}
            /\ UNCHANGED cur
       ELSE /\ cur' = [cur EXCEPT !.swallowed = @ + 1]
            /\ UNCHANGED mdbModels
    /\ cleanups' = cleanups + 1
    /\ pc' = "for"

DelModel ==
    /\ pc = "delModel"
    /\ DeleteModel
    /\ UNCHANGED <<configNum, modelName, jobName, waitTime, jobStatus,
                   mdbJobs, allResults, resultsFile, finalRead>>
    /\ UNCHANGED otherVars

\* after the loops: json.dump(jsonResults, f) and the text summary
\* (lines 426-456)
WriteResults ==
    /\ pc = "for"
    /\ configNum = totalConfigs
    /\ resultsFile' = [written |-> TRUE, content |-> allResults]
    /\ pc' = "done"
    /\ UNCHANGED <<configNum, modelName, jobName, waitTime, jobStatus, mdbModels,
                   mdbJobs, allResults, finalRead, cleanups, cur>>
    /\ UNCHANGED otherVars

Next ==
    \/ StartConfig
    \/ CreateModel
    \/ SaveAs
    \/ CheckJob
    \/ Submit
    \/ WhileTest
    \/ Poll
    \/ FinalStatus
    \/ Extract
    \/ CloseOdb
    \/ DelModel
    \/ WriteResults

Spec == Init /\ [][Next]_vars


(***************************************************************************)
(* Properties of the sweep.                                               *)
(***************************************************************************)
KeyOf(i) == configKey(Configs[i].beta, Configs[i].theta)

\* a record produced by extractResults
IsResultRecord(r) == "odbPath" \in DOMAIN r

\* a record produced by the except handler
IsErrorRecord(r) == DOMAIN r = {"beta", "theta", "error"}

HasRecord(i) == KeyOf(i) \in DOMAIN allResults

\* the status a record carries, None when it carries none
RecordStatus(r) == IF "status" \in DOMAIN r THEN r.status ELSE None

MaxPolls == maxWait \div pollInterval

\* runSweep has ended: it returned, or an exception left it
Ended == pc \in {"done", "raised"}

\* the current configuration has failed in one of the ways the driver knows
Failed ==
    \/ cur.handled
    \/ cur.classifications > 0 /\ cur.classified # "COMPLETED"

\* C1: no failure of a configuration (createModel, save or submit raising,
\* job missing, job Aborted or Failed, poll budget exhausted, extraction
\* raising) ends the sweep: runSweep ends only after every configuration of
\* the enumeration has been started and built, and while a failed
\* configuration is not the last one the sweep has not ended.
C1_FailureDoesNotEndSweep ==
    /\ pc # "raised"
    /\ Ended => configNum = totalConfigs
    /\ (Failed /\ configNum < totalConfigs) => ~Ended
    /\ pc \notin {"for", "createModel", "done"} => cur.builds = 1

\* the first configuration failed in createModel and the second one was
\* built, submitted and completed
C1_Witness ==
    /\ pc = "done"
    /\ HasRecord(1) /\ IsErrorRecord(allResults[KeyOf(1)])
    /\ allResults[KeyOf(1)].error = "createModel failed"
    /\ finalRead[2] = "COMPLETED"
    /\ HasRecord(2) /\ IsResultRecord(allResults[KeyOf(2)])

\* C2: when the sweep has finished, a configuration whose job was still not
\* terminal after the poll budget ran out has an entry in the results store
\* with status TimedOut and no extracted data.
C2_TimedOutRecorded ==
    pc = "done" =>
        \A i \in 1..totalConfigs :
            finalRead[i] \in NonTerminal =>
                /\ HasRecord(i)
                /\ RecordStatus(allResults[KeyOf(i)]) = "TimedOut"
                /\ ~IsResultRecord(allResults[KeyOf(i)])

\* C3: when the sweep has finished, every configuration has a record in the
\* results store, the record carries one of the four terminal statuses, and
\* a job that ended Aborted or Failed is recorded with that status and no
\* extracted data.
C3_OneTerminalRecordEach ==
    pc = "done" =>
        \A i \in 1..totalConfigs :
            /\ HasRecord(i)
            /\ RecordStatus(allResults[KeyOf(i)]) \in
                   {"Completed", "Aborted", "Failed", "TimedOut"}
            /\ finalRead[i] = "ABORTED" =>
                   /\ RecordStatus(allResults[KeyOf(i)]) = "Aborted"
                   /\ ~IsResultRecord(allResults[KeyOf(i)])
            /\ finalRead[i] = "FAILED" =>
                   /\ RecordStatus(allResults[KeyOf(i)]) = "Failed"
                   /\ ~IsResultRecord(allResults[KeyOf(i)])

\* C4: the results store holds a record produced by extractResults for a
\* configuration only if the status read after that configuration's poll
\* loop was COMPLETED.
C4_ResultsOnlyIfCompleted ==
    \A i \in 1..totalConfigs :
        (HasRecord(i) /\ IsResultRecord(allResults[KeyOf(i)]))
            => finalRead[i] = "COMPLETED"

\* a completed job's results are in the store
C4_Witness ==
    /\ HasRecord(1) /\ IsResultRecord(allResults[KeyOf(1)])
    /\ allResults[KeyOf(1)].naturalFrequencies = FrameValues
    /\ finalRead[1] = "COMPLETED"

\* C5: the poll loop makes at most maxWait/pollInterval = 150 status
\* queries, each preceded by its own sleep, whatever the job reports; once
\* the loop is over the job is classified by one more status read, and the
\* cleanup runs before the next configuration.
C5_PollLoopBounded ==
    /\ cur.polls <= MaxPolls
    /\ MaxPolls = 150
    /\ cur.sleeps = cur.polls + (IF pc = "poll" THEN 1 ELSE 0)
    /\ pc \in {"while", "poll"} => waitTime = cur.polls * pollInterval
    /\ (pc = "final" /\ cur.polls < MaxPolls) => jobStatus \in Terminal
    /\ (cur.submits > 0 /\ pc \in {"extract", "closeOdb", "delModel", "for"})
           => cur.classifications = 1
    /\ (pc = "for" /\ configNum > 0) => cleanups = configNum

\* a job that never ended: the budget was used up, the job was classified
\* and the cleanup has run
C5_Witness ==
    /\ pc = "for"
    /\ cur.polls = MaxPolls
    /\ cur.sleeps = MaxPolls
    /\ cur.classified = "RUNNING"
    /\ cleanups = configNum

\* C6: once a status query inside the poll loop has returned COMPLETED,
\* ABORTED or FAILED the loop is over: control is never again at the loop
\* test or at a status query of the loop for that job.
C6_TerminalStatusEndsLoop ==
    jobStatus \in Terminal => pc \notin {"while", "poll"}

\* the loop was left on ABORTED at the first poll, with budget remaining
C6_Witness ==
    /\ pc = "final"
    /\ jobStatus = "ABORTED"
    /\ cur.polls = 1
    /\ waitTime = 0

\* C7: when createModel raises, the job is missing or submit raises (or the
\* save in between raises), the configuration is never polled nor
\* classified and nothing is extracted for it, the results map holds under
\* its key a record of its beta, theta and the error text, and the sweep
\* goes on: the record is still there when the sweep has finished.
C7_EarlyFailureRecorded ==
    /\ pc # "raised"
    /\ (cur.handled /\ cur.submits = 0) =>
          /\ cur.polls = 0 /\ cur.sleeps = 0
          /\ cur.classifications = 0 /\ cur.extractions = 0
          /\ pc \in {"closeOdb", "delModel", "for", "done"}
          /\ HasRecord(configNum)
          /\ IsErrorRecord(allResults[KeyOf(configNum)])
          /\ allResults[KeyOf(configNum)].beta = Configs[configNum].beta
          /\ allResults[KeyOf(configNum)].theta = Configs[configNum].theta
          /\ allResults[KeyOf(configNum)].error \in
                {"createModel failed", "saveAs failed", "Job not found"}
                \cup (IF cur.builds = 1 THEN {"submit failed"} ELSE {})
    /\ \A i \in 1..totalConfigs :
          (i < configNum \/ pc \in {"for", "done"}) /\ i <= configNum
              /\ finalRead[i] = None
            => /\ HasRecord(i)
               /\ IsErrorRecord(allResults[KeyOf(i)])
               /\ allResults[KeyOf(i)].beta = Configs[i].beta
               /\ allResults[KeyOf(i)].theta = Configs[i].theta

\* the first configuration's job was missing; the second configuration runs
C7_Witness ==
    /\ configNum = 2
    /\ pc = "poll"
    /\ HasRecord(1)
    /\ IsErrorRecord(allResults[KeyOf(1)])
    /\ allResults[KeyOf(1)].error = "Job not found"
    /\ finalRead[1] = None

\* C8: the cleanup block has run to its end for every configuration
\* processed before the next one starts (and before the sweep returns),
\* whichever way the configuration ended, and no exception raised inside
\* the cleanup leaves runSweep.
C8_CleanupAlwaysRuns ==
    /\ pc # "raised"
    /\ pc \in {"for", "done"} => cleanups = configNum
    /\ pc \notin {"for", "done"} => cleanups = configNum - 1

\* both statements of the cleanup raised, and the sweep is at the head of
\* the loop with a configuration still to run
C8_Witness ==
    /\ pc = "for"
    /\ configNum = 1
    /\ configNum < totalConfigs
    /\ cur.swallowed = 2
    /\ cleanups = 1

\* C9: after each configuration the results file on disk holds the records
\* of all configurations processed so far.
C9_FlushedAfterEachConfig ==
    (pc = "for" /\ configNum > 0) =>
        /\ resultsFile.written
        /\ resultsFile.content = allResults

\* C10: the lifecycle steps of a configuration happen once each and in
\* order: build, submit, status polls, one classification, extraction only
\* after a classification as COMPLETED, cleanup.
C10_LifecycleOrder ==
    /\ cur.builds <= 1 /\ cur.submits <= 1
    /\ cur.classifications <= 1 /\ cur.extractions <= 1
    /\ cur.submits = 1 => cur.builds = 1
    /\ (cur.sleeps > 0 \/ cur.polls > 0) => cur.submits = 1
    /\ pc \in {"while", "poll"} => (cur.submits = 1 /\ cur.classifications = 0)
    /\ cur.classifications = 1 =>
          /\ cur.submits = 1
          /\ cur.classified = jobStatus
          /\ pc \notin {"createModel", "saveAs", "checkJob", "submit",
                        "while", "poll", "final"}
    /\ (cur.extractions = 1 \/ pc = "extract") =>
          /\ cur.classifications = 1
          /\ cur.classified = "COMPLETED"
    /\ (cur.classifications = 1 /\ cur.classified # "COMPLETED") =>
          (cur.extractions = 0 /\ pc # "extract")
    /\ pc \in {"closeOdb", "delModel"} =>
          (cur.handled \/ cur.extractions = 1
             \/ (cur.classifications = 1 /\ cur.classified # "COMPLETED"))
    /\ cur.swallowed > 0 => pc \in {"delModel", "for", "done"}

\* a configuration that went through every step
C10_Witness ==
    /\ pc = "for"
    /\ cur.builds = 1 /\ cur.submits = 1
    /\ cur.polls = 3
    /\ cur.classifications = 1 /\ cur.classified = "COMPLETED"
    /\ cur.extractions = 1
    /\ ~cur.handled
    /\ cleanups = configNum


(***************************************************************************)
(* The enumeration of runSweep on its own (lines 315-331): the two nested *)
(* for-loops over the full BETA_VALUES and THETA_VALUES.  The loop body   *)
(* is one step here: it leaves a record under the configuration's key or  *)
(* leaves none, and always comes back to the loop head.                   *)
(*   enum.bi, enum.ti : positions of the two iterators (0: not started)   *)
(*   enum.configNum   : the counter of line 324                           *)
(*   enum.started     : the (beta, theta) pairs the body was entered with *)
(*   enum.keys        : the keys of the records stored so far             *)
(***************************************************************************)
EnumStart == [pc |-> "for", bi |-> 0, ti |-> 0, configNum |-> 0,
              started |-> <<>>, keys |-> {}]

EnumInit ==
    /\ SweepInit
    /\ enum = EnumStart
    /\ call = Idle
    /\ ret = Idle

\* both iterators are exhausted
Exhausted(bi, ti) == bi = Len(BETA_VALUES) /\ ti = Len(THETA_VALUES)

\* the inner loop runs over THETA_VALUES for each beta in turn
NextPair_ThetaOuter(bi, ti) ==
    IF ti >= 1 /\ bi < Len(BETA_VALUES)
    THEN [bi |-> bi + 1, ti |-> ti]
    ELSE [bi |-> 1, ti |-> ti + 1]

\* for beta in BETA_VALUES: for theta in THETA_VALUES: the next positions
\* of the two iterators (lines 322-323)
NextPair(bi, ti) ==
    IF bi >= 1 /\ ti < Len(THETA_VALUES)
    THEN [bi |-> bi, ti |-> ti + 1]
    ELSE [bi |-> bi + 1, ti |-> 1]

\* the loop head: the next pair is taken and counted (lines 322-331)
EnumNext ==
    /\ enum.pc = "for"
    /\ ~Exhausted(enum.bi, enum.ti)
    /\ LET n == NextPair(enum.bi, enum.ti)
       IN  enum' = [enum EXCEPT
                      !.bi = n.bi, !.ti = n.ti,
                      !.configNum = @ + 1,
                      !.started = Append(@, [beta  |-> BETA_VALUES[n.bi],
                                             theta |-> THETA_VALUES[n.ti]]),
                      !.pc = "body"]
    /\ UNCHANGED <<sweepVars, call, ret>>

\* the loop body (lines 334-423): a record is stored under the key of the
\* pair (lines 390, 407) or none is (line 400)
EnumBody ==
    /\ enum.pc = "body"
    /\ \E stores \in BOOLEAN :
          enum' = [enum EXCEPT
                     !.keys = IF stores
                              THEN @ \cup {configKey(BETA_VALUES[enum.bi],
                                                     THETA_VALUES[enum.ti])}
                              ELSE @,
                     !.pc = "for"]
    /\ UNCHANGED <<sweepVars, call, ret>>

\* both loops are over (line 425)
EnumDone ==
    /\ enum.pc = "for"
    /\ Exhausted(enum.bi, enum.ti)
    /\ enum' = [enum EXCEPT !.pc = "done"]
    /\ UNCHANGED <<sweepVars, call, ret>>

EnumNextStep ==
    \/ EnumNext
    \/ EnumBody
    \/ EnumDone

SpecEnum == EnumInit /\ [][EnumNextStep]_vars

\* the Cartesian product BETA_VALUES x THETA_VALUES
Product ==
    {[beta |-> BETA_VALUES[b], theta |-> THETA_VALUES[t]] :
        b \in 1..Len(BETA_VALUES), t \in 1..Len(THETA_VALUES)}

\* position of a pair in row-major order: beta outer, theta inner
RowMajorRank(b, t) == (b - 1) * Len(THETA_VALUES) + t

\* C11: runSweep starts the pairs of BETA_VALUES x THETA_VALUES in
\* row-major order (beta outer, theta inner), none twice, and when the loops
\* are over it has started every pair: |BETA_VALUES| * |THETA_VALUES|
\* configurations, which is also what configNum has counted.
C11_RowMajorEnumeration ==
    LET st == IF enum.pc = "idle" THEN <<>> ELSE enum.started
    IN  enum.pc # "idle" =>
          /\ enum.configNum = Len(st)
          /\ \A k \in 1..Len(st) :
                \E b \in 1..Len(BETA_VALUES), t \in 1..Len(THETA_VALUES) :
                    /\ RowMajorRank(b, t) = k
                    /\ st[k] = [beta |-> BETA_VALUES[b], theta |-> THETA_VALUES[t]]
          /\ \A j, k \in 1..Len(st) : j # k => st[j] # st[k]
          /\ enum.pc = "done" =>
                /\ Len(st) = Len(BETA_VALUES) * Len(THETA_VALUES)
                /\ {st[k] : k \in 1..Len(st)} = Product
                /\ \A k \in 1..Len(st) : st[k] = Configs[k]

\* the loops are over, the outer loop has advanced after the last theta of
\* the first beta, and every configuration has left a record
C11_Witness ==
    /\ enum.pc = "done"
    /\ Len(enum.started) = 12
    /\ enum.started[3] = [beta |-> 15, theta |-> 30]
    /\ enum.started[4] = [beta |-> 10, theta |-> 0]
    /\ Cardinality(enum.keys) = 12


(***************************************************************************)
(* Post-processing (post_process_results.py): identifyBandgaps,           *)
(* checkPlasticity, checkBuckling.                                        *)
(*                                                                         *)
(* Python values.  A number is kept as an exact fraction n/d with d > 0   *)
(* (floating-point rounding is not modelled); None and the booleans are   *)
(* tagged so that a field may hold either.                                *)
(***************************************************************************)
PyNone == [t |-> "None"]

PyBool(b) == [t |-> "bool", b |-> b]

Q(n, d) == [t |-> "num", n |-> n, d |-> d]

QLt(a, b) == a.n * b.d < b.n * a.d

QEq(a, b) == a.n * b.d = b.n * a.d

QAdd(a, b) == Q(a.n * b.d + b.n * a.d, a.d * b.d)

QSub(a, b) == Q(a.n * b.d - b.n * a.d, a.d * b.d)

QMul(a, b) == Q(a.n * b.n, a.d * b.d)

\* a / b for b # 0
QDiv(a, b) == IF b.n > 0 THEN Q(a.n * b.d, a.d * b.n)
              ELSE Q(-(a.n * b.d), -(a.d * b.n))

RECURSIVE Gcd(_, _)
Gcd(a, b) == IF b = 0 THEN a ELSE Gcd(b, a % b)

\* a fraction of positive denominator with numerator and denominator divided by their gcd
InLowestTerms(q) == Q(q.n \div Gcd(q.n, q.d), q.d \div Gcd(q.n, q.d))

\* what a call does: it returns a value or raises an exception
Return(v) == [kind |-> "return", val |-> v]

Raise(e) == [kind |-> "raise", exc |-> e]

Pending == [kind |-> "pending"]

(***************************************************************************)
(* identifyBandgaps (lines 163-230).  Frequencies and strain energies are *)
(* sequences of integers.                                                 *)
(***************************************************************************)
RECURSIVE SeqMax(_)
\* np.max of a non-empty array
SeqMax(xs) ==
    IF Len(xs) = 1 THEN xs[1]
    ELSE LET m == SeqMax(Tail(xs)) IN IF xs[1] >= m THEN xs[1] ELSE m

\* the center is not halved
Bandgap_CenterNotHalved(bandgap_start, bandgap_end) ==
    [onset  |-> bandgap_start,
     end    |-> bandgap_end,
     width  |-> QSub(bandgap_end, bandgap_start),
     center |-> QAdd(bandgap_start, bandgap_end)]

\* the dictionary appended for one bandgap (lines 213-218, 223-228)
Bandgap(bandgap_start, bandgap_end) ==
    [onset  |-> bandgap_start,
     end    |-> bandgap_end,
     width  |-> QSub(bandgap_end, bandgap_start),
     center |-> QDiv(QAdd(bandgap_start, bandgap_end), Q(2, 1))]

\* a sample at the threshold counts as below it
BelowThreshold_Inclusive(se, se_max, threshold) ==
    ~QLt(threshold, QDiv(Q(se, 1), Q(se_max, 1)))

\* below_threshold[i]: se_arr[i] / se_max < threshold (lines 191-197)
BelowThreshold(se, se_max, threshold) == QLt(QDiv(Q(se, 1), Q(se_max, 1)), threshold)

\* every bandgap is taken to start at the first frequency
LoopStep_StartAtFirst(st, i, is_below, frequencies) ==
    IF st.raised THEN st
    ELSE IF is_below /\ ~st.in_bandgap
    THEN IF i > Len(frequencies) THEN [st EXCEPT !.raised = TRUE]
         ELSE [st EXCEPT !.in_bandgap = TRUE,
                         !.bandgap_start = Q(frequencies[1], 1)]
    ELSE IF ~is_below /\ st.in_bandgap
    THEN IF i > Len(frequencies) THEN [st EXCEPT !.raised = TRUE]
         ELSE [st EXCEPT !.in_bandgap = FALSE,
                         !.bandgaps = Append(@, Bandgap(st.bandgap_start,
                                                        Q(frequencies[i], 1)))]
    ELSE st

\* One pass of the for-loop body (lines 203-218) for sample i.  st holds
\* in_bandgap, bandgap_start, bandgaps, and raised: freq_arr[i] raises
\* IndexError when the frequency series is shorter than i.
LoopStep(st, i, is_below, frequencies) ==
    IF st.raised THEN st
    ELSE IF is_below /\ ~st.in_bandgap
    THEN IF i > Len(frequencies) THEN [st EXCEPT !.raised = TRUE]
         ELSE [st EXCEPT !.in_bandgap = TRUE,
                         !.bandgap_start = Q(frequencies[i], 1)]
    ELSE IF ~is_below /\ st.in_bandgap
    THEN IF i > Len(frequencies) THEN [st EXCEPT !.raised = TRUE]
         ELSE [st EXCEPT !.in_bandgap = FALSE,
                         !.bandgaps = Append(@, Bandgap(st.bandgap_start,
                                                        Q(frequencies[i], 1)))]
    ELSE st

RECURSIVE Scan(_, _, _, _, _, _)
\* the for-loop over the samples i..Len(strainEnergy) (line 203)
Scan(st, i, frequencies, strainEnergy, se_max, threshold) ==
    IF i > Len(strainEnergy) THEN st
    ELSE Scan(LoopStep(st, i,
                       BelowThreshold(strainEnergy[i], se_max, threshold),
                       frequencies),
              i + 1, frequencies, strainEnergy, se_max, threshold)

\* a run still open after the last sample is dropped
CloseOpenRun_Dropped(st, frequencies) == st.bandgaps

\* if in_bandgap: the open run ends at freq_arr[-1] (lines 220-228)
CloseOpenRun(st, frequencies) ==
    IF st.in_bandgap
    THEN Append(st.bandgaps,
                Bandgap(st.bandgap_start, Q(frequencies[Len(frequencies)], 1)))
    ELSE st.bandgaps

\* only the frequency series is tested for emptiness
EmptyInput_FrequenciesOnly(frequencies, strainEnergy) == frequencies = <<>>

\* if not frequencies or not strainEnergy (line 178)
EmptyInput(frequencies, strainEnergy) ==
    frequencies = <<>> \/ strainEnergy = <<>>

\* Lines 178-230.  np.max (line 187) raises ValueError on an empty array,
\* which the test of line 178 keeps it from being given.
identifyBandgaps(frequencies, strainEnergy, threshold_factor) ==
    IF EmptyInput(frequencies, strainEnergy) THEN Return(<<>>)
    ELSE IF strainEnergy = <<>> THEN Raise("ValueError")
    ELSE IF SeqMax(strainEnergy) = 0 THEN Return(<<>>)
    ELSE
    LET st == Scan([in_bandgap |-> FALSE, bandgap_start |-> PyNone,
                    bandgaps |-> <<>>, raised |-> FALSE],
                   1, frequencies, strainEnergy, SeqMax(strainEnergy),
                   threshold_factor)
    IN  IF st.raised THEN Raise("IndexError")
        ELSE Return(CloseOpenRun(st, frequencies))

(***************************************************************************)
(* checkPlasticity (lines 233-255)                                        *)
(***************************************************************************)
YIELD_STRESS_DEFAULT == 276000

\* stress at the yield stress counts as yielding
HasPlasticity_Inclusive(maxStress, yieldStress) == ~QLt(maxStress, yieldStress)

\* hasPlasticity = maxStress > yieldStress (line 248)
HasPlasticity(maxStress, yieldStress) == QLt(yieldStress, maxStress)

checkPlasticity(maxStress, yieldStress) ==
    IF maxStress.t = "None"
    THEN Return([hasPlasticity |-> PyNone, safetyFactor |-> PyNone])
    ELSE IF maxStress.n = 0 THEN Raise("ZeroDivisionError")
    ELSE Return([hasPlasticity   |-> PyBool(HasPlasticity(maxStress, yieldStress)),
                 safetyFactor    |-> QDiv(yieldStress, maxStress),
                 maxStress_MPa   |-> QDiv(maxStress, Q(1000, 1)),
                 yieldStress_MPa |-> QDiv(yieldStress, Q(1000, 1))])

(***************************************************************************)
(* checkBuckling (lines 258-282)                                          *)
(***************************************************************************)
APPLIED_LOAD_DEFAULT == 10000

\* the last load factor of the list is taken
FirstLoadFactor_Last(loadFactors) == loadFactors[Len(loadFactors)]

\* firstLF = loadFactors[0] (line 272)
FirstLoadFactor(loadFactors) == loadFactors[1]

\* an empty list is reported as "will not buckle"
checkBuckling_NoDataPasses(loadFactors, appliedLoad) ==
    IF loadFactors = <<>>
    THEN Return([willBuckle |-> PyBool(FALSE), criticalLoad |-> PyNone])
    ELSE LET firstLF == FirstLoadFactor(loadFactors)
             criticalLoad == QMul(firstLF, appliedLoad)
         IN  Return([willBuckle      |-> PyBool(QLt(firstLF, Q(1, 1))),
                     criticalLoad_N  |-> criticalLoad,
                     criticalLoad_kN |-> QDiv(criticalLoad, Q(1000, 1)),
                     loadFactor      |-> firstLF,
                     safetyMargin    |-> IF QLt(Q(1, 1), firstLF)
                                         THEN QMul(QSub(firstLF, Q(1, 1)), Q(100, 1))
                                         ELSE Q(0, 1)])

checkBuckling(loadFactors, appliedLoad) ==
    IF loadFactors = <<>>
    THEN Return([willBuckle |-> PyNone, criticalLoad |-> PyNone])
    ELSE LET firstLF == FirstLoadFactor(loadFactors)
             criticalLoad == QMul(firstLF, appliedLoad)
         IN  Return([willBuckle      |-> PyBool(QLt(firstLF, Q(1, 1))),
                     criticalLoad_N  |-> criticalLoad,
                     criticalLoad_kN |-> QDiv(criticalLoad, Q(1000, 1)),
                     loadFactor      |-> firstLF,
                     safetyMargin    |-> IF QLt(Q(1, 1), firstLF)
                                         THEN QMul(QSub(firstLF, Q(1, 1)), Q(100, 1))
                                         ELSE Q(0, 1)])

(***************************************************************************)
(* processAllResults (post_process_results.py, lines 285-352): the output *)
(* databases of a directory are read one by one and each is stored under  *)
(* a key made of the beta and theta recovered from its file name.  The    *)
(* files are the ones the sweep's jobs leave behind, <jobName>.odb.  What *)
(* is read from inside a database is left out of the record here.         *)
(***************************************************************************)
\* the characters of the multi-character pieces of a name
Explode(piece) ==
    CASE piece = "Job_" -> <<"J", "o", "b", "_">>
      [] piece = ".odb" -> <<".", "o", "d", "b">>
      [] OTHER -> <<piece>>

RECURSIVE Chars(_)
Chars(str) == IF str = <<>> THEN <<>>
              ELSE Explode(Head(str)) \o Chars(Tail(str))

\* the name of the output database of a job (parametric_sweep.py line 385)
odbFileOf(d, t) == Chars(JobNameOf(d, t) \o <<".odb">>)

\* odbFile.replace('.odb', ''): the names end in '.odb' (line 299) and hold
\* no other '.', since createModel replaced it by '_'
WithoutOdb(odbFile) == SubSeq(odbFile, 1, Len(odbFile) - 4)

RECURSIVE Split(_)
\* str.split('_')
Split(str) ==
    IF \A k \in 1..Len(str) : str[k] # "_" THEN <<str>>
    ELSE LET k == CHOOSE j \in 1..Len(str) :
                      str[j] = "_" /\ \A h \in 1..(j - 1) : str[h] # "_"
         IN  <<SubSeq(str, 1, k - 1)>> \o Split(SubSeq(str, k + 1, Len(str)))

Digits == {"0", "1", "2", "3", "4", "5", "6", "7", "8", "9"}

DigitValue(ch) == CHOOSE n \in 0..9 : Digit(n) = ch

RECURSIVE DigitsValue(_)
DigitsValue(str) ==
    IF str = <<>> THEN 0
    ELSE 10 * DigitsValue(SubSeq(str, 1, Len(str) - 1)) + DigitValue(str[Len(str)])

\* float(str) for the strings that occur here: a non-empty string of digits
\* gives its value, anything else raises ValueError (PyNone stands for that)
ParseFloat(str) ==
    IF str # <<>> /\ \A k \in 1..Len(str) : str[k] \in Digits
    THEN Q(DigitsValue(str), 1)
    ELSE PyNone

\* one pass of `for part in nameParts` (lines 322-332)
ParsePart(part, found) ==
    IF part # <<>> /\ part[1] = "b"
    THEN IF ParseFloat(Tail(part)).t = "None" THEN found
         ELSE [found EXCEPT !.beta = ParseFloat(Tail(part))]
    ELSE IF part # <<>> /\ part[1] = "t"
    THEN IF ParseFloat(Tail(part)).t = "None" THEN found
         ELSE [found EXCEPT !.theta = ParseFloat(Tail(part))]
    ELSE found

RECURSIVE ParseParts(_, _)
ParseParts(nameParts, found) ==
    IF nameParts = <<>> THEN found
    ELSE ParseParts(Tail(nameParts), ParsePart(Head(nameParts), found))

\* the beta and theta recovered from a file name (lines 318-332)
ParseName(odbFile) ==
    ParseParts(Split(WithoutOdb(odbFile)), [beta |-> PyNone, theta |-> PyNone])

\* str(x) of a float with an integer value, as an f-string prints it
FloatStr(q) == Decimal(q.n) \o <<".", "0">>

\* configKey = f"b{beta}_t{theta}" if both were recovered, else odbFile
\* (line 349)
processedKey(found, odbFile) ==
    IF found.beta.t # "None" /\ found.theta.t # "None"
    THEN <<"b">> \o FloatStr(found.beta) \o <<"_", "t">> \o FloatStr(found.theta)
    ELSE odbFile

RECURSIVE ProcessFiles(_, _)
\* for odbFile in odbFiles: ... allResults[configKey] = results
ProcessFiles(odbFiles, processed) ==
    IF odbFiles = <<>> THEN processed
    ELSE LET odbFile == Head(odbFiles)
             found == ParseName(odbFile)
         IN  ProcessFiles(Tail(odbFiles),
                 Put(processed, processedKey(found, odbFile),
                     [odbPath |-> odbFile, beta |-> found.beta,
                      theta |-> found.theta]))

\* odbAccess: whether the odbAccess module can be imported; without it
\* extractResultsFromOdb returns None and no file is stored (lines 32-36, 315)
processAllResults(odbFiles, odbAccess) ==
    IF odbFiles = <<>> \/ ~odbAccess THEN Return(<<>>)
    ELSE Return(ProcessFiles(odbFiles, <<>>))

(***************************************************************************)
(* The calls checked: every input within the bounds below.                *)
(***************************************************************************)
\* longest frequency or strain-energy series
MaxLen == 3

\* largest strain energy of a sample
MaxEnergy == 2

\* largest frequency of a sample
MaxFreq == 3

\* largest of the small stresses tried besides the documented ones
MaxSmallStress == 3

\* longest list of buckling load factors
MaxFactors == 2

SeqsUpTo(S, n) == UNION {[1..k -> S] : k \in 0..n}

\* frequency series in ascending order, equal neighbours allowed
AscendingSeqs ==
    {f \in SeqsUpTo(1..MaxFreq, MaxLen) :
        \A k \in 1..(Len(f) - 1) : f[k] <= f[k + 1]}

\* threshold fractions: the default 0.1, 0.5, 0.6, and 1.5
Thresholds == {Q(1, 10), Q(1, 2), Q(3, 5), Q(3, 2)}

BandgapCalls ==
    {[fn |-> "identifyBandgaps", frequencies |-> f, strainEnergy |-> e,
      threshold_factor |-> th] :
        f \in AscendingSeqs, e \in SeqsUpTo(0..MaxEnergy, MaxLen), th \in Thresholds}

Stresses == (0..MaxSmallStress) \cup {200000, YIELD_STRESS_DEFAULT, 300000}

PlasticityCalls ==
    {[fn |-> "checkPlasticity", maxStress |-> m, yieldStress |-> Q(y, 1)] :
        m \in {PyNone} \cup {Q(x, 1) : x \in Stresses},
        y \in Stresses \ {0}}

\* load factors, in tenths: -0.5, 0, 0.8, 1, 1.1, 1.5, 2.1
LoadFactors == {Q(k, 10) : k \in {-5, 0, 8, 10, 11, 15, 21}}

BucklingCalls ==
    {[fn |-> "checkBuckling", loadFactors |-> lf, appliedLoad |-> Q(a, 1)] :
        lf \in SeqsUpTo(LoadFactors, MaxFactors),
        a \in {0, 1, 7, APPLIED_LOAD_DEFAULT}}

\* most output databases in the directory
MaxFiles == 2

\* the configurations whose output databases are in the directory, in the
\* order os.listdir gives them
FileLists ==
    {fs \in SeqsUpTo(1..Len(Configs), MaxFiles) :
        \A i, j \in 1..Len(fs) : i # j => fs[i] # fs[j]}

ProcessCalls ==
    {[fn |-> "processAllResults", files |-> fs, odbAccess |-> a] :
        fs \in FileLists, a \in BOOLEAN}

MetricsInit ==
    /\ SweepInit
    /\ enum = Idle
    /\ call \in BandgapCalls \cup PlasticityCalls \cup BucklingCalls
                 \cup ProcessCalls
    /\ ret = Pending

IdentifyBandgaps ==
    /\ call.fn = "identifyBandgaps"
    /\ ret = Pending
    /\ ret' = identifyBandgaps(call.frequencies, call.strainEnergy,
                               call.threshold_factor)
    /\ UNCHANGED <<sweepVars, enum, call>>

CheckPlasticity ==
    /\ call.fn = "checkPlasticity"
    /\ ret = Pending
    /\ ret' = checkPlasticity(call.maxStress, call.yieldStress)
    /\ UNCHANGED <<sweepVars, enum, call>>

CheckBuckling ==
    /\ call.fn = "checkBuckling"
    /\ ret = Pending
    /\ ret' = checkBuckling(call.loadFactors, call.appliedLoad)
    /\ UNCHANGED <<sweepVars, enum, call>>

\* the file names of the call: one <jobName>.odb per configuration
odbFilesOf(fs) ==
    [k \in 1..Len(fs) |-> odbFileOf(Configs[fs[k]].beta, Configs[fs[k]].theta)]

ProcessAllResults ==
    /\ call.fn = "processAllResults"
    /\ ret = Pending
    /\ ret' = processAllResults(odbFilesOf(call.files), call.odbAccess)
    /\ UNCHANGED <<sweepVars, enum, call>>

MetricsNext ==
    \/ IdentifyBandgaps
    \/ CheckPlasticity
    \/ CheckBuckling
    \/ ProcessAllResults

SpecMetrics == MetricsInit /\ [][MetricsNext]_vars


(***************************************************************************)
(* Properties of identifyBandgaps.                                        *)
(***************************************************************************)
Freqs == call.frequencies

Energies == call.strainEnergy

Threshold == call.threshold_factor

BandgapCalled == call.fn = "identifyBandgaps" /\ ret.kind # "pending"

BandgapReturned == call.fn = "identifyBandgaps" /\ ret.kind = "return"

SameLength == Len(Freqs) = Len(Energies)

StrictlyAscending == \A k \in 1..(Len(Freqs) - 1) : Freqs[k] < Freqs[k + 1]

\* the largest strain energy of a non-empty series
PeakEnergy ==
    CHOOSE m \in {Energies[k] : k \in 1..Len(Energies)} :
        \A k \in 1..Len(Energies) : Energies[k] <= m

\* there is a signal to analyse
HasSignal == Freqs # <<>> /\ Energies # <<>> /\ PeakEnergy > 0

\* sample i is suppressed: Energies[i] / PeakEnergy < Threshold
Suppressed(i) == Energies[i] * Threshold.d < Threshold.n * PeakEnergy

\* first samples of the maximal runs of suppressed samples
RunStarts ==
    {i \in 1..Len(Energies) : Suppressed(i) /\ (i = 1 \/ ~Suppressed(i - 1))}

\* the sample whose frequency ends the run that starts at i
RunStop(i) ==
    LET after == {j \in (i + 1)..Len(Energies) : ~Suppressed(j)}
    IN  IF after = {} THEN Len(Energies)
        ELSE CHOOSE j \in after : \A x \in after : j <= x

\* the k-th run start in scan order
KthRun(k) ==
    CHOOSE i \in RunStarts : Cardinality({j \in RunStarts : j <= i}) = k

\* the fraction q is the integer x
QIs(q, x) == q.t = "num" /\ q.d > 0 /\ q.n = x * q.d

\* C12: for a non-empty strain-energy series with a same-length strictly
\* ascending frequency series and a threshold fraction below 1, every
\* bandgap returned has end > onset and width > 0.
C12_PositiveWidth ==
    (BandgapReturned /\ Energies # <<>> /\ SameLength /\ StrictlyAscending
       /\ QLt(Q(0, 1), Threshold) /\ QLt(Threshold, Q(1, 1))) =>
        \A k \in 1..Len(ret.val) :
            /\ QLt(ret.val[k].onset, ret.val[k].end)
            /\ QLt(Q(0, 1), ret.val[k].width)

\* C13: the bandgaps returned are in ascending onset order and do not
\* overlap: each one ends no later than the next one starts (and with
\* strictly ascending frequencies the onsets strictly ascend).
C13_SortedNonOverlapping ==
    BandgapReturned =>
        \A k \in 1..(Len(ret.val) - 1) :
            /\ ~QLt(ret.val[k + 1].onset, ret.val[k].onset)
            /\ ~QLt(ret.val[k + 1].onset, ret.val[k].end)
            /\ ~QLt(ret.val[k].end, ret.val[k].onset)
            /\ StrictlyAscending => QLt(ret.val[k].onset, ret.val[k + 1].onset)

\* two bandgaps were returned for same-length series
C13_Witness ==
    /\ BandgapReturned
    /\ SameLength
    /\ StrictlyAscending
    /\ Len(ret.val) = 2

\* C14: for same-length series with a signal, the list returned has one
\* bandgap per maximal run of suppressed samples, in scan order: onset is
\* the frequency of the run's first sample, end the frequency of the first
\* non-suppressed sample after the run or of the last sample, width is
\* end - onset and center is (onset + end) / 2.
C14_OneBandgapPerRun ==
    (BandgapCalled /\ HasSignal /\ SameLength) =>
        /\ ret.kind = "return"
        /\ Len(ret.val) = Cardinality(RunStarts)
        /\ \A k \in 1..Len(ret.val) :
              LET i == KthRun(k)
                  on == Freqs[i]
                  en == Freqs[RunStop(i)]
                  g  == ret.val[k]
              IN  /\ QIs(g.onset, on)
                  /\ QIs(g.end, en)
                  /\ QIs(g.width, en - on)
                  /\ g.center.d > 0
                  /\ 2 * g.center.n = (on + en) * g.center.d

\* a run closed by a non-suppressed sample and a run that reaches the end
C14_Witness ==
    /\ BandgapReturned
    /\ HasSignal /\ SameLength
    /\ Len(Energies) = 3
    /\ Suppressed(1) /\ ~Suppressed(2) /\ Suppressed(3)
    /\ Len(ret.val) = 2
    /\ Freqs[1] < Freqs[2]

\* C15: if no sample's normalized strain energy is below the threshold,
\* identifyBandgaps returns the empty list.
C15_NoneSuppressedGivesEmpty ==
    (BandgapCalled /\ HasSignal
       /\ \A i \in 1..Len(Energies) : ~Suppressed(i)) =>
        /\ ret.kind = "return"
        /\ ret.val = <<>>

\* nothing is suppressed, and one sample sits exactly at the threshold
C15_Witness ==
    /\ BandgapReturned
    /\ HasSignal /\ SameLength
    /\ Len(Energies) = 3
    /\ \A i \in 1..Len(Energies) : ~Suppressed(i)
    /\ \E i \in 1..Len(Energies) :
          Energies[i] * Threshold.d = Threshold.n * PeakEnergy
    /\ ret.val = <<>>

\* C16: if every sample's normalized strain energy is below the threshold,
\* identifyBandgaps returns exactly one bandgap, from the first frequency
\* to the last frequency of the series.
C16_AllSuppressedGivesOne ==
    (BandgapCalled /\ HasSignal
       /\ \A i \in 1..Len(Energies) : Suppressed(i)) =>
        /\ ret.kind = "return"
        /\ Len(ret.val) = 1
        /\ QIs(ret.val[1].onset, Freqs[1])
        /\ QIs(ret.val[1].end, Freqs[Len(Freqs)])

\* all three samples are below the threshold (a threshold above 1)
C16_Witness ==
    /\ BandgapReturned
    /\ HasSignal /\ SameLength
    /\ Len(Energies) = 3
    /\ \A i \in 1..Len(Energies) : Suppressed(i)
    /\ Len(ret.val) = 1
    /\ Freqs[1] < Freqs[3]

\* the maximum strain energy is 0
PeakIsZero ==
    /\ Energies # <<>>
    /\ \A k \in 1..Len(Energies) : Energies[k] <= 0
    /\ \E k \in 1..Len(Energies) : Energies[k] = 0

\* C17: identifyBandgaps returns the empty list, and does not raise, when
\* the frequency series is empty, the strain-energy series is empty, or the
\* maximum strain energy is 0.
C17_NoSignalGivesEmpty ==
    (BandgapCalled /\ (Freqs = <<>> \/ Energies = <<>> \/ PeakIsZero)) =>
        /\ ret.kind = "return"
        /\ ret.val = <<>>

\* an empty strain-energy series with frequencies present
C17_Witness ==
    /\ BandgapReturned
    /\ Energies = <<>>
    /\ Len(Freqs) = 2
    /\ ret.val = <<>>


(***************************************************************************)
(* Properties of checkPlasticity and checkBuckling.                       *)
(***************************************************************************)
PlasticityCalled == call.fn = "checkPlasticity" /\ ret.kind # "pending"

\* the stresses of a checkPlasticity call whose maxStress is a number
MaxStress == call.maxStress.n

YieldStress == call.yieldStress.n

\* C18: for positive maxStress and yieldStress, checkPlasticity returns
\* hasPlasticity = (maxStress > yieldStress), false when the two are equal,
\* and safetyFactor = yieldStress / maxStress, so hasPlasticity is true
\* exactly when safetyFactor < 1; 300000 against 276000 gives true with
\* safety factor 0.92, 200000 against 276000 gives false with 1.38.
C18_PlasticityVerdict ==
    (PlasticityCalled /\ call.maxStress.t = "num" /\ MaxStress > 0
       /\ YieldStress > 0) =>
        /\ ret.kind = "return"
        /\ ret.val.hasPlasticity = PyBool(MaxStress > YieldStress)
        /\ ret.val.safetyFactor.t = "num"
        /\ ret.val.safetyFactor.d > 0
        /\ InLowestTerms(ret.val.safetyFactor) = InLowestTerms(Q(YieldStress, MaxStress))
        /\ ret.val.hasPlasticity.b <=>
              ret.val.safetyFactor.n < ret.val.safetyFactor.d
        /\ MaxStress = YieldStress => ~ret.val.hasPlasticity.b
        /\ (MaxStress = 300000 /\ YieldStress = 276000) =>
              /\ ret.val.hasPlasticity.b
              /\ 100 * ret.val.safetyFactor.n = 92 * ret.val.safetyFactor.d
        /\ (MaxStress = 200000 /\ YieldStress = 276000) =>
              /\ ~ret.val.hasPlasticity.b
              /\ 100 * ret.val.safetyFactor.n = 138 * ret.val.safetyFactor.d

\* the stress equals the yield stress: no plasticity, safety factor 1
C18_Witness ==
    /\ PlasticityCalled
    /\ call.maxStress.t = "num"
    /\ MaxStress = YIELD_STRESS_DEFAULT
    /\ YieldStress = YIELD_STRESS_DEFAULT
    /\ ret.kind = "return"
    /\ ret.val.hasPlasticity = PyBool(FALSE)

\* C19: checkPlasticity called with maxStress = 0 does not raise: it
\* returns a result with hasPlasticity false and a defined safetyFactor.
C19_ZeroStressDefined ==
    (PlasticityCalled /\ call.maxStress.t = "num" /\ MaxStress = 0) =>
        /\ ret.kind = "return"
        /\ ret.val.hasPlasticity = PyBool(FALSE)
        /\ "safetyFactor" \in DOMAIN ret.val

BucklingCalled == call.fn = "checkBuckling" /\ ret.kind # "pending"

\* the governing load factor of a checkBuckling call, and the applied load
Lf0 == call.loadFactors[1]

Load == call.appliedLoad

\* C20: for a non-empty loadFactors list and any appliedLoad, checkBuckling
\* returns, for the first load factor lf0: willBuckle = (lf0 < 1),
\* criticalLoad = lf0 * appliedLoad, loadFactor = lf0 and safetyMargin =
\* (lf0 - 1) * 100 when lf0 > 1, else 0; [0.8, 2.1] at 10000 gives
\* willBuckle true and criticalLoad 8000, [1.5] gives willBuckle false and
\* safetyMargin 50.
C20_BucklingVerdict ==
    (BucklingCalled /\ call.loadFactors # <<>>) =>
        /\ ret.kind = "return"
        /\ ret.val.willBuckle = PyBool(Lf0.n < Lf0.d)
        /\ ret.val.loadFactor = Lf0
        /\ ret.val.criticalLoad_N.d > 0
        /\ ret.val.criticalLoad_N.n * Lf0.d * Load.d
              = Lf0.n * Load.n * ret.val.criticalLoad_N.d
        /\ ret.val.safetyMargin.d > 0
        /\ IF Lf0.n > Lf0.d
           THEN ret.val.safetyMargin.n * Lf0.d
                   = (Lf0.n - Lf0.d) * 100 * ret.val.safetyMargin.d
           ELSE ret.val.safetyMargin.n = 0
        /\ (Lf0 = Q(8, 10) /\ Load = Q(10000, 1)) =>
              /\ ret.val.willBuckle.b
              /\ QIs(ret.val.criticalLoad_N, 8000)
        /\ Lf0 = Q(15, 10) =>
              /\ ~ret.val.willBuckle.b
              /\ QIs(ret.val.safetyMargin, 50)

\* the documented call: load factors [0.8, 2.1] at 10000 N
C20_Witness ==
    /\ BucklingCalled
    /\ call.loadFactors = <<Q(8, 10), Q(21, 10)>>
    /\ Load = Q(APPLIED_LOAD_DEFAULT, 1)
    /\ ret.kind = "return"
    /\ ret.val.willBuckle = PyBool(TRUE)
    /\ QIs(ret.val.criticalLoad_N, 8000)


(***************************************************************************)
(* findOptimalConfiguration (generate_report.py, lines 370-450).  The     *)
(* results mapping is a sequence of <<configKey, data>> pairs in the      *)
(* mapping's iteration order; data is a record that holds the keys the    *)
(* dict holds.  Scores are exact rationals.                               *)
(***************************************************************************)
\* d.get(k, default)
Get(d, k, default) == IF k \in DOMAIN d THEN d[k] ELSE default

\* the truth value Python gives a value in `if v:`
Truthy(v) ==
    CASE v.t = "None" -> FALSE
      [] v.t = "bool" -> v.b
      [] v.t = "num"  -> v.n # 0

\* v and v > 1
AboveOne(v) == v.t = "num" /\ Truthy(v) /\ QLt(Q(1, 1), v)

\* the safety factor is rewarded whenever the configuration is not plastic
PlasticityScore_AlwaysRewarded(data) ==
    IF "plasticityCheck" \notin DOMAIN data THEN Q(0, 1)
    ELSE IF Truthy(Get(data.plasticityCheck, "hasPlasticity", PyBool(FALSE)))
    THEN Q(-100, 1)
    ELSE IF Get(data.plasticityCheck, "safetyFactor", PyNone).t = "num"
    THEN QMul(Get(data.plasticityCheck, "safetyFactor", PyNone), Q(10, 1))
    ELSE Q(0, 1)

\* what the plasticity block adds to the score (lines 390-399)
PlasticityScore(data) ==
    IF "plasticityCheck" \notin DOMAIN data THEN Q(0, 1)
    ELSE IF Truthy(Get(data.plasticityCheck, "hasPlasticity", PyBool(FALSE)))
    THEN Q(-100, 1)
    ELSE IF AboveOne(Get(data.plasticityCheck, "safetyFactor", PyNone))
    THEN QMul(Get(data.plasticityCheck, "safetyFactor", PyNone), Q(10, 1))
    ELSE Q(0, 1)

\* what the buckling block adds to the score (lines 404-413)
BucklingScore(data) ==
    IF "bucklingCheck" \notin DOMAIN data THEN Q(0, 1)
    ELSE IF Truthy(Get(data.bucklingCheck, "willBuckle", PyBool(FALSE)))
    THEN Q(-100, 1)
    ELSE IF AboveOne(Get(data.bucklingCheck, "loadFactor", PyNone))
    THEN QMul(QSub(Get(data.bucklingCheck, "loadFactor", PyNone), Q(1, 1)),
              Q(50, 1))
    ELSE Q(0, 1)

\* 'bandgaps' in data and len(data['bandgaps']) > 0 (line 420)
HasBandgap(data) == "bandgaps" \in DOMAIN data /\ data.bandgaps # <<>>

\* what the bandgap block adds to the score (lines 418-431)
BandgapScore(data) ==
    IF HasBandgap(data)
    THEN QAdd(IF Truthy(data.bandgaps[1].onset)
              THEN QSub(Q(0, 1), QDiv(data.bandgaps[1].onset, Q(10, 1)))
              ELSE Q(0, 1),
              IF Truthy(data.bandgaps[1].width)
              THEN QDiv(data.bandgaps[1].width, Q(5, 1))
              ELSE Q(0, 1))
    ELSE Q(-50, 1)

\* the issues recorded for a configuration, in the order they are appended
Issues(data) ==
    (IF "plasticityCheck" \in DOMAIN data
        /\ Truthy(Get(data.plasticityCheck, "hasPlasticity", PyBool(FALSE)))
     THEN <<"Plasticity detected">> ELSE <<>>)
    \o (IF "bucklingCheck" \in DOMAIN data
           /\ Truthy(Get(data.bucklingCheck, "willBuckle", PyBool(FALSE)))
        THEN <<"Buckling instability">> ELSE <<>>)
    \o (IF HasBandgap(data) THEN <<>> ELSE <<"No bandgap detected">>)

\* the candidate appended for one item of results (lines 383-445)
Candidate(configKey_, data) ==
    [config        |-> configKey_,
     beta          |-> Get(data, "beta", PyNone),
     theta         |-> Get(data, "theta", PyNone),
     score         |-> InLowestTerms(
                           QAdd(QAdd(PlasticityScore(data), BucklingScore(data)),
                                BandgapScore(data))),
     issues        |-> Issues(data),
     hasPlasticity |-> IF "plasticityCheck" \in DOMAIN data
                       THEN Get(data.plasticityCheck, "hasPlasticity", PyBool(FALSE))
                       ELSE PyBool(FALSE),
     willBuckle    |-> IF "bucklingCheck" \in DOMAIN data
                       THEN Get(data.bucklingCheck, "willBuckle", PyBool(FALSE))
                       ELSE PyBool(FALSE),
     safetyFactor  |-> IF "plasticityCheck" \in DOMAIN data
                       THEN Get(data.plasticityCheck, "safetyFactor", PyNone)
                       ELSE PyNone,
     bucklingLF    |-> IF "bucklingCheck" \in DOMAIN data
                       THEN Get(data.bucklingCheck, "loadFactor", PyNone)
                       ELSE PyNone,
     bandgapOnset  |-> IF HasBandgap(data) THEN data.bandgaps[1].onset ELSE PyNone,
     bandgapWidth  |-> IF HasBandgap(data) THEN data.bandgaps[1].width ELSE PyNone]

\* the sort is ascending: reverse=True was left out
ComesBefore_Ascending(a, b) == ~QLt(b.score, a.score)

\* whether a, which stands before b in the list being sorted, stays before
\* b: list.sort(key=score, reverse=True) is stable, so equal scores keep
\* their order (line 448)
ComesBefore(a, b) == ~QLt(a.score, b.score)

RECURSIVE InsertSorted(_, _)
\* x, which stood after every element of sorted, put in its place
InsertSorted(sorted, x) ==
    IF sorted = <<>> THEN <<x>>
    ELSE IF ComesBefore(sorted[Len(sorted)], x) THEN Append(sorted, x)
    ELSE Append(InsertSorted(SubSeq(sorted, 1, Len(sorted) - 1), x),
                sorted[Len(sorted)])

RECURSIVE SortCandidates(_)
\* candidates.sort(key=lambda x: x['score'], reverse=True)
SortCandidates(candidates) ==
    IF candidates = <<>> THEN <<>>
    ELSE InsertSorted(SortCandidates(SubSeq(candidates, 1, Len(candidates) - 1)),
                      candidates[Len(candidates)])

findOptimalConfiguration(results) ==
    Return(SortCandidates([k \in 1..Len(results) |->
                              Candidate(results[k][1], results[k][2])]))

\* the first bandgap is taken off the list it is read from
ResultsAfter_FirstBandgapPopped(results) ==
    [k \in 1..Len(results) |->
        <<results[k][1],
          IF HasBandgap(results[k][2])
          THEN [results[k][2] EXCEPT !.bandgaps = Tail(@)]
          ELSE results[k][2]>>]

\* the results mapping once findOptimalConfiguration has returned: the
\* function reads results and data (items, get, indexing) and assigns to
\* none of their keys (lines 383-448)
ResultsAfter(results) == results

(***************************************************************************)
(* The calls of findOptimalConfiguration checked: every mapping of at     *)
(* most MaxRecords configurations, in every insertion order, whose        *)
(* records are the ones below.  A record holds what the function reads:   *)
(* the verdict and factor of each check and the list of bandgaps.         *)
(***************************************************************************)
\* most records in a results mapping
MaxRecords == 2

\* plasticityCheck: no data; plastic (safety factor 0.92); safe (1.38); at
\* the yield stress (1.0)
PlasticityChecks ==
    { [hasPlasticity |-> PyNone, safetyFactor |-> PyNone],
      [hasPlasticity |-> PyBool(TRUE), safetyFactor |-> Q(92, 100)],
      [hasPlasticity |-> PyBool(FALSE), safetyFactor |-> Q(138, 100)],
      [hasPlasticity |-> PyBool(FALSE), safetyFactor |-> Q(1, 1)] }

\* bucklingCheck: no data; buckles (load factor 0.8); safe (4.0)
BucklingChecks ==
    { [willBuckle |-> PyNone, criticalLoad |-> PyNone],
      [willBuckle |-> PyBool(TRUE), loadFactor |-> Q(8, 10)],
      [willBuckle |-> PyBool(FALSE), loadFactor |-> Q(4, 1)] }

\* bandgaps: none; one from 100 Hz to 110 Hz
BandgapLists == { <<>>, <<Bandgap(Q(100, 1), Q(110, 1))>> }

\* a record of processed_results.json, and one of parametric_results.json
\* that no check was run on
Datas ==
    { [plasticityCheck |-> p, bucklingCheck |-> b, bandgaps |-> g] :
        p \in PlasticityChecks, b \in BucklingChecks, g \in BandgapLists }
    \cup { [maxStress |-> PyNone] }

\* the record of configuration i: data with the configuration's beta, theta
RecordOf(i, data) ==
    [k \in DOMAIN data \cup {"beta", "theta"} |->
        IF k = "beta" THEN Configs[i].beta
        ELSE IF k = "theta" THEN Configs[i].theta
        ELSE data[k]]

\* the configurations of a mapping, in its insertion order
InsertionOrders ==
    {fs \in SeqsUpTo(1..MaxRecords, MaxRecords) :
        \A i, j \in 1..Len(fs) : i # j => fs[i] # fs[j]}

\* the mapping that holds data ds[k] under the key of configuration is[k]
ResultsOf(is, ds) ==
    [k \in 1..Len(is) |-> <<KeyOf(is[k]), RecordOf(is[k], ds[k])>>]

\* the same items put into a mapping in the opposite order
Reversed(results) == [k \in 1..Len(results) |-> results[Len(results) + 1 - k]]

\* call.results is the mapping as it is now, call.given as it was passed;
\* ret.val is what the first run returned, ret.again what a second run on
\* the same mapping returned, ret.permuted what a run on the same items in
\* the opposite insertion order returned
RankInit ==
    /\ SweepInit
    /\ enum = Idle
    /\ \E is \in InsertionOrders : \E ds \in [1..Len(is) -> Datas] :
          call = [fn |-> "findOptimalConfiguration",
                  results |-> ResultsOf(is, ds), given |-> ResultsOf(is, ds)]
    /\ ret = Pending

Rank ==
    /\ ret = Pending
    /\ ret' = [kind |-> "return",
               val |-> findOptimalConfiguration(call.results).val,
               again |-> Pending, permuted |-> Pending]
    /\ call' = [call EXCEPT !.results = ResultsAfter(@)]
    /\ UNCHANGED <<sweepVars, enum>>

RankAgain ==
    /\ ret.kind = "return"
    /\ ret.again = Pending
    /\ ret' = [ret EXCEPT !.again = findOptimalConfiguration(call.results)]
    /\ call' = [call EXCEPT !.results = ResultsAfter(@)]
    /\ UNCHANGED <<sweepVars, enum>>

RankPermuted ==
    /\ ret.kind = "return"
    /\ ret.permuted = Pending
    /\ ret' = [ret EXCEPT !.permuted =
                              findOptimalConfiguration(Reversed(call.given))]
    /\ UNCHANGED <<sweepVars, enum, call>>

RankNext ==
    \/ Rank
    \/ RankAgain
    \/ RankPermuted

SpecRank == RankInit /\ [][RankNext]_vars

(***************************************************************************)
(* Further properties of the sweep.                                       *)
(***************************************************************************)
ModelOf(i) == ModelNameOf(Configs[i].beta, Configs[i].theta)

\* C27: after the cleanup of a configuration has run, no model built for
\* that configuration remains in mdb.models, whatever the outcome of the
\* configuration.
C27_NoModelLeftAfterCleanup ==
    \A i \in 1..totalConfigs :
        (i < configNum \/ (i = configNum /\ pc \in {"for", "done"}))
            => ModelOf(i) \notin mdbModels

\* the fields extractResults starts its record with (lines 259-269)
ResultFields == {"beta", "theta", "odbPath", "maxStress", "maxDisplacement",
                 "bucklingLoadFactors", "naturalFrequencies",
                 "strainEnergyFRF", "frequencies"}

\* C28: an exception raised while the output database of a Completed job
\* is read does not leave extractResults: the record it returns keeps the
\* fields extracted so far and gains an error text, the record is stored
\* under the configuration's key, and the sweep goes on.
C28_ExtractionErrorRecorded ==
    /\ pc # "raised"
    /\ (cur.extractions = 1 /\ ~cur.handled) =>
          /\ pc \in {"closeOdb", "delModel", "for", "done"}
          /\ HasRecord(configNum)
          /\ ResultFields \subseteq DOMAIN allResults[KeyOf(configNum)]
          /\ allResults[KeyOf(configNum)].beta = Configs[configNum].beta
          /\ allResults[KeyOf(configNum)].theta = Configs[configNum].theta
          /\ allResults[KeyOf(configNum)].odbPath =
                JobNameOf(Configs[configNum].beta, Configs[configNum].theta)
                    \o <<".odb">>
    /\ \A i \in 1..totalConfigs :
          (HasRecord(i) /\ "error" \in DOMAIN allResults[KeyOf(i)]
             /\ finalRead[i] = "COMPLETED"
             /\ allResults[KeyOf(i)].error # "import failed")
            => /\ ResultFields \subseteq DOMAIN allResults[KeyOf(i)]
               /\ allResults[KeyOf(i)].error \in
                     {"openOdb failed", "frame read failed"}
               /\ allResults[KeyOf(i)].error = "openOdb failed" =>
                     allResults[KeyOf(i)].maxDisplacement = None

\* reading a frame of the first configuration's database raised after the
\* displacement had been extracted; the second configuration is running
C28_Witness ==
    /\ configNum = 2
    /\ pc = "poll"
    /\ finalRead[1] = "COMPLETED"
    /\ HasRecord(1)
    /\ IsResultRecord(allResults[KeyOf(1)])
    /\ "error" \in DOMAIN allResults[KeyOf(1)]
    /\ allResults[KeyOf(1)].error = "frame read failed"
    /\ allResults[KeyOf(1)].maxDisplacement = MaxDispValue

\* C30: a job is classified by the status read after the poll loop, not by
\* the last status seen inside it: extraction is entered exactly when that
\* read returns COMPLETED, so a job that completes between the last poll of
\* an exhausted budget and the final read gets a result record.
C30_ClassifiedByFinalRead ==
    /\ cur.classifications = 1 =>
          /\ cur.classified = finalRead[configNum]
          /\ (pc = "extract" \/ cur.extractions = 1)
                <=> finalRead[configNum] = "COMPLETED"
    /\ (pc \in {"closeOdb", "delModel", "for", "done"} /\ configNum > 0) =>
          ((HasRecord(configNum) /\ IsResultRecord(allResults[KeyOf(configNum)]))
              <=> (finalRead[configNum] = "COMPLETED" /\ ~cur.handled))

\* the budget ran out with the job still in progress, the read after the
\* loop returned COMPLETED and the results were extracted
C30_Witness ==
    /\ pc = "for"
    /\ waitTime = maxWait
    /\ cur.polls = MaxPolls
    /\ finalRead[configNum] = "COMPLETED"
    /\ cur.extractions = 1
    /\ HasRecord(configNum)
    /\ IsResultRecord(allResults[KeyOf(configNum)])


(***************************************************************************)
(* Properties of processAllResults.                                       *)
(***************************************************************************)
ProcessReturned ==
    call.fn = "processAllResults" /\ ret.kind = "return" /\ call.odbAccess

\* the records stored for the output database of configuration i
RecordsOf(i) ==
    {key \in DOMAIN ret.val :
        ret.val[key].odbPath = odbFileOf(Configs[i].beta, Configs[i].theta)}

\* C29: for every configuration of the sweep, the (beta, theta) that
\* processAllResults recovers from the file name Job_b<beta>_t<theta>.odb
\* is the configuration that produced the file, so distinct configurations
\* get distinct keys and no record overwrites another.
C29_NameRoundTrip ==
    ProcessReturned =>
        /\ Cardinality(DOMAIN ret.val) = Len(call.files)
        /\ \A k \in 1..Len(call.files) :
              \E key \in RecordsOf(call.files[k]) :
                  /\ ret.val[key].beta.t = "num"
                  /\ ret.val[key].beta.n * Configs[call.files[k]].beta
                        = ret.val[key].beta.d
                  /\ ret.val[key].theta.t = "num"
                  /\ QIs(ret.val[key].theta, Configs[call.files[k]].theta)


(***************************************************************************)
(* Properties of the checks on absent data.                               *)
(***************************************************************************)
\* C21: when the input of a check is absent (loadFactors empty for
\* checkBuckling, maxStress None for checkPlasticity) the check does not
\* raise and returns the verdict None, and it returns None for no present
\* input: the verdict of a present input is True or False.
C21_NoDataVerdict ==
    /\ (BucklingCalled /\ call.loadFactors = <<>>) =>
          /\ ret.kind = "return"
          /\ ret.val.willBuckle.t = "None"
    /\ (BucklingCalled /\ call.loadFactors # <<>> /\ ret.kind = "return") =>
          /\ ret.val.willBuckle.t = "bool"
          /\ ret.val.willBuckle.b \in BOOLEAN
    /\ (PlasticityCalled /\ call.maxStress.t = "None") =>
          /\ ret.kind = "return"
          /\ ret.val.hasPlasticity.t = "None"
    /\ (PlasticityCalled /\ call.maxStress.t # "None" /\ ret.kind = "return") =>
          /\ ret.val.hasPlasticity.t = "bool"
          /\ ret.val.hasPlasticity.b \in BOOLEAN

\* checkBuckling was called with no load factor at all
C21_Witness ==
    /\ BucklingCalled
    /\ call.loadFactors = <<>>
    /\ ret.kind = "return"
    /\ ret.val.willBuckle.t = "None"


(***************************************************************************)
(* Properties of findOptimalConfiguration.                                *)
(***************************************************************************)
Ranked == call.fn = "findOptimalConfiguration" /\ ret.kind = "return"

\* the configuration keys of a list of candidates, in the list's order
ConfigsOf(candidates) == [k \in 1..Len(candidates) |-> candidates[k].config]

\* the keys and scores of a list of candidates, in the list's order
RankingOf(candidates) ==
    [k \in 1..Len(candidates) |-> <<candidates[k].config, candidates[k].score>>]

\* C22: findOptimalConfiguration returns exactly one candidate per input
\* record, in non-increasing score order: no candidate is followed by one
\* with a strictly higher score.
C22_OnePerRecordSortedDescending ==
    Ranked =>
        /\ Len(ret.val) = Len(call.given)
        /\ \A k \in 1..Len(call.given) :
              Cardinality({j \in 1..Len(ret.val) :
                              ret.val[j].config = call.given[k][1]}) = 1
        /\ \A j, k \in 1..Len(ret.val) :
              j < k => ~QLt(ret.val[j].score, ret.val[k].score)

\* the record that came second in the mapping has the higher score and is
\* returned first
C22_Witness ==
    /\ Ranked
    /\ Len(ret.val) = 2
    /\ ret.val[1].config = call.given[2][1]
    /\ ret.val[2].config = call.given[1][1]
    /\ QLt(ret.val[2].score, ret.val[1].score)

\* C23: candidates of equal score are ordered by configuration key, so the
\* order of the returned list does not depend on the order in which the
\* records appear in the input mapping.
C23_OrderIndependentOfInputOrder ==
    (Ranked /\ ret.permuted.kind = "return") =>
        ConfigsOf(ret.val) = ConfigsOf(ret.permuted.val)

C25_PlasticNeverOutranksClean ==
    Ranked =>
        \A j, k \in 1..Len(ret.val) :
            j < k => ~(Truthy(ret.val[j].hasPlasticity)
                         /\ ret.val[k].issues = <<>>)

\* the three terms of the score as C26 states them, for a candidate whose
\* safety factor and load factor are numbers
StatedPlasticityTerm(c) ==
    IF Truthy(c.hasPlasticity) THEN Q(-100, 1)
    ELSE QMul(Q(10, 1), c.safetyFactor)

StatedBucklingTerm(c) ==
    IF Truthy(c.willBuckle) THEN Q(-100, 1)
    ELSE QMul(Q(50, 1), QSub(c.bucklingLF, Q(1, 1)))

StatedBandgapTerm(c) ==
    IF c.bandgapOnset.t = "None" THEN Q(-50, 1)
    ELSE QAdd(QSub(Q(0, 1), QDiv(c.bandgapOnset, Q(10, 1))),
              QDiv(c.bandgapWidth, Q(5, 1)))

\* C26 (as stated): the score is the sum of the plasticity term (-100 if
\* hasPlasticity, otherwise +10 * safetyFactor), the buckling term (-100
\* if willBuckle, otherwise +50 * (loadFactor - 1)) and the bandgap term
\* (-50 if there is no bandgap, otherwise -onset/10 + width/5 of the first
\* bandgap).
C26_ScoreIsSumOfTerms ==
    Ranked =>
        \A k \in 1..Len(ret.val) :
            (ret.val[k].safetyFactor.t = "num" /\ ret.val[k].bucklingLF.t = "num")
              => QEq(ret.val[k].score,
                     QAdd(QAdd(StatedPlasticityTerm(ret.val[k]),
                               StatedBucklingTerm(ret.val[k])),
                          StatedBandgapTerm(ret.val[k])))

\* the rewards as amended: a factor is rewarded only when it is above 1
AmendedPlasticityTerm(c) ==
    IF Truthy(c.hasPlasticity) THEN Q(-100, 1)
    ELSE IF c.safetyFactor.t = "num" /\ QLt(Q(1, 1), c.safetyFactor)
    THEN QMul(Q(10, 1), c.safetyFactor)
    ELSE Q(0, 1)

AmendedBucklingTerm(c) ==
    IF Truthy(c.willBuckle) THEN Q(-100, 1)
    ELSE IF c.bucklingLF.t = "num" /\ QLt(Q(1, 1), c.bucklingLF)
    THEN QMul(Q(50, 1), QSub(c.bucklingLF, Q(1, 1)))
    ELSE Q(0, 1)

\* C26 (amended): the score is the sum of three independent terms:
\* plasticity (-100 if hasPlasticity, otherwise +10 * safetyFactor when the
\* safety factor is present and above 1, else nothing), buckling (-100 if
\* willBuckle, otherwise +50 * (loadFactor - 1) when the load factor is
\* present and above 1, else nothing) and bandgap (-50 if there is no
\* bandgap, otherwise -onset/10 + width/5 of the first bandgap).
C26_ScoreIsSumOfGuardedTerms ==
    Ranked =>
        \A k \in 1..Len(ret.val) :
            QEq(ret.val[k].score,
                QAdd(QAdd(AmendedPlasticityTerm(ret.val[k]),
                          AmendedBucklingTerm(ret.val[k])),
                     StatedBandgapTerm(ret.val[k])))

\* a configuration exactly at the yield stress (safety factor 1, not
\* rewarded) with load factor 4 and a bandgap from 100 to 110 Hz:
\* 0 + 150 - 10 + 2 = 142
C26_Witness ==
    /\ Ranked
    /\ Len(ret.val) >= 1
    /\ ~Truthy(ret.val[1].hasPlasticity)
    /\ ret.val[1].safetyFactor = Q(1, 1)
    /\ ret.val[1].bucklingLF = Q(4, 1)
    /\ ret.val[1].bandgapOnset = Q(100, 1)
    /\ QIs(ret.val[1].score, 142)

=============================================================================
